---- MODULE Spec2Model ----
(***************************************************************************)
(* Model of src/main.ts: NormalizedError, the guards isError,              *)
(* isNormalizedError and isPromise, toNormalizedError, noThrow and         *)
(* logError.                                                               *)
(*                                                                         *)
(* A JavaScript value is a record: its typeof tag, its primitive text, an  *)
(* identity for objects, and the state of the members the code inspects.   *)
(* A member is absent, holds undefined, a string, a number or a function,  *)
(* or is an accessor whose read raises.  The module keeps no state of its  *)
(* own, so a behaviour is one scenario: one call (logError may be called   *)
(* repeatedly, since the diagnostic stream accumulates), followed, for a   *)
(* deferred result of noThrow, by the platform settling the underlying     *)
(* promise and running the reaction job.                                   *)
(***************************************************************************)
EXTENDS Integers, Sequences, FiniteSets, TLC

VARIABLES op, arg, out, guards, calls, under, derived, console

vars == <<op, arg, out, guards, calls, under, derived, console>>

\* Largest number of records kept on the diagnostic stream in one scenario.
MaxRecords == 2

----------------------------------------------------------------------------
\* Members of an object, as the code reads them.

Absent == [st |-> "absent", val |-> ""]
Undef == [st |-> "undefined", val |-> ""]
Throws == [st |-> "throws", val |-> ""]
Num == [st |-> "number", val |-> "1"]
Str(s) == [st |-> "string", val |-> s]

\* The values of the scenarios.
Prim(tag, text) ==
  [tag |-> tag, prim |-> text, id |-> "", message |-> Absent, stack |-> Absent,
   originalValue |-> "absent", then |-> "absent", catch |-> "absent",
   inst |-> FALSE, cyclic |-> FALSE, toStr |-> "ok", catchB |-> "native"]

Undefined == Prim("undefined", "undefined")
Null == Prim("null", "null")

Primitives ==
  {Undefined, Null, Prim("number", "0"), Prim("number", "42"),
   Prim("string", ""), Prim("string", "boom"),
   Prim("boolean", "false"), Prim("boolean", "true")}

MessageMembers == {Absent, Num, Throws, Str(""), Str("x")}
StackMembers == {Absent, Undef, Throws, Str(""), Str("Error: x at f")}

\* Objects and functions carrying (or not) the members of an error.
Objects ==
  {[tag |-> t, prim |-> "", id |-> "arg", message |-> m, stack |-> s,
    originalValue |-> o, then |-> "absent", catch |-> "absent",
    inst |-> i, cyclic |-> c, toStr |-> ts, catchB |-> "native"] :
      t \in {"object", "function"}, m \in MessageMembers, s \in StackMembers,
      o \in {"absent", "present"}, i \in BOOLEAN, c \in BOOLEAN,
      ts \in {"ok", "throws"}}

\* Objects and functions carrying (or not) the members of a promise.  catchB
\* is what calling the catch member does: "native" registers the handler as
\* Promise.prototype.catch does, "raises" raises synchronously.
Thenables ==
  {[tag |-> t, prim |-> "", id |-> "arg", message |-> Absent, stack |-> Absent,
    originalValue |-> "absent", then |-> th, catch |-> ca,
    inst |-> FALSE, cyclic |-> FALSE, toStr |-> "ok", catchB |-> cb] :
      t \in {"object", "function"},
      th \in {"absent", "function", "number", "throws"},
      ca \in {"absent", "function", "number", "throws"},
      cb \in {"native", "raises"}}

Universe == Primitives \cup Objects \cup Thenables

\* What a raising accessor raises, and what a raising catch member raises.
AccessorThrown ==
  [Prim("object", "") EXCEPT !.id = "thrown", !.message = Str("getter failed"),
                             !.stack = Str("Error: getter failed at get"),
                             !.inst = TRUE]
CatchThrown ==
  [Prim("object", "") EXCEPT !.id = "thrown", !.message = Str("catch failed"),
                             !.stack = Str("Error: catch failed at catch"),
                             !.inst = TRUE]
ConversionThrown ==
  [Prim("object", "") EXCEPT !.id = "thrown", !.message = Str("cannot convert"),
                             !.stack = Str("TypeError: cannot convert at String"),
                             !.inst = TRUE]

----------------------------------------------------------------------------
\* Language primitives the code uses.

TypeOf(v) == IF v.tag = "null" THEN "object" ELSE v.tag

Truthy(v) ==
  CASE v.tag \in {"undefined", "null"} -> FALSE
    [] v.tag = "number" -> v.prim # "0"
    [] v.tag = "string" -> v.prim # ""
    [] v.tag = "boolean" -> v.prim = "true"
    [] OTHER -> TRUE

Nullish(v) == v.tag \in {"undefined", "null"}

\* new Error(msg): a fresh Error instance; the engine gives it a stack.
NewError(msg) ==
  [Prim("object", "") EXCEPT !.id = "new", !.message = Str(msg),
                             !.stack = Str("Error: " \o msg \o " at <anonymous>"),
                             !.inst = TRUE]

\* Reading e.message / e.stack: an Error instance without an own message
\* inherits "" from Error.prototype; any other missing member reads undefined.
ReadMessage(e) ==
  IF e.message.st = "absent" THEN (IF e.inst THEN Str("") ELSE Undef)
  ELSE e.message
ReadStack(e) == IF e.stack.st = "absent" THEN Undef ELSE e.stack

\* The message super(error.message) leaves on the new instance: an undefined
\* argument leaves Error.prototype's "", any other is converted to a string.
MessageOf(error) ==
  IF ReadMessage(error).st = "undefined" THEN Str("")
  ELSE Str(ReadMessage(error).val)

\* a ?? b on members.
Coalesce(a, b) == IF a.st = "undefined" THEN b ELSE a

RECURSIVE Join(_)
Join(parts) ==
  IF parts = <<>> THEN ""
  ELSE IF Len(parts) = 1 THEN parts[1]
  ELSE parts[1] \o "," \o Join(Tail(parts))

JsonMember(name, m) ==
  CASE m.st = "string" -> << "\"" \o name \o "\":\"" \o m.val \o "\"" >>
    [] m.st = "number" -> << "\"" \o name \o "\":" \o m.val >>
    [] OTHER -> << >>

Conv(okay, text) == [ok |-> okay, text |-> text]

\* JSON.stringify(v) for typeof v = "object".  The own message and stack of an
\* Error instance are not enumerable; functions and undefined are left out;
\* a cycle or a raising accessor makes it raise.
JsonStringify(v) ==
  IF v.tag = "null" THEN Conv(TRUE, "null")
  ELSE
    LET m == IF v.inst THEN Absent ELSE v.message
        s == IF v.inst THEN Absent ELSE v.stack
        o == IF v.originalValue = "present" THEN << "\"originalValue\":null" >>
             ELSE << >>
        t == [st |-> v.then, val |-> "1"]
        c == [st |-> v.catch, val |-> "1"]
    IN IF v.cyclic \/ "throws" \in {m.st, s.st, t.st, c.st}
       THEN Conv(FALSE, "")
       ELSE Conv(TRUE, "{" \o Join(JsonMember("message", m) \o JsonMember("stack", s)
                                   \o o \o JsonMember("then", t)
                                   \o JsonMember("catch", c)) \o "}")

\* String(v).
String(v) ==
  CASE v.tag \in {"undefined", "null", "number", "string", "boolean"} ->
         Conv(TRUE, v.prim)
    [] v.toStr = "throws" -> Conv(FALSE, "")
    [] v.tag = "function" -> Conv(TRUE, "function () {}")
    [] v.inst ->
         LET m == ReadMessage(v)
         IN IF m.st = "throws" THEN Conv(FALSE, "")
            ELSE IF m.st = "undefined" \/ m.val = "" THEN Conv(TRUE, "Error")
            ELSE Conv(TRUE, "Error: " \o m.val)
    [] OTHER -> Conv(TRUE, "[object Object]")

----------------------------------------------------------------------------
\* Results of calls.

NoNE == [message |-> Absent, stack |-> Absent, originalValue |-> Undefined]

None == [kind |-> "none", isNE |-> FALSE, ne |-> NoNE, val |-> Undefined,
         deferred |-> FALSE]
Return(v) == [None EXCEPT !.kind = "return", !.val = v]
ReturnNE(n) == [None EXCEPT !.kind = "return", !.isNE = TRUE, !.ne = n]
ReturnDeferred == [None EXCEPT !.kind = "return", !.deferred = TRUE]
Raise(v) == [None EXCEPT !.kind = "raise", !.val = v]

\* A NormalizedError instance seen as a value by the guards.
AsValue(n) ==
  [Prim("object", "") EXCEPT !.id = "ne", !.message = n.message,
                             !.stack = n.stack, !.originalValue = "present",
                             !.inst = TRUE]

\* The value a result denotes (what the caller holds after a return).
ResultValue(o) == IF o.isNE THEN AsValue(o.ne) ELSE o.val

----------------------------------------------------------------------------
\* The guards.  Each yields "true", "false", or "raise" when reading a member
\* raises.

\* isError without the test of the stack member.
isError_NoStackCheck(value) ==
  IF ~Truthy(value) THEN "false"
  ELSE IF TypeOf(value) # "object" THEN "false"
  ELSE IF value.message.st = "absent" THEN "false"
  ELSE IF value.message.st = "throws" THEN "raise"
  ELSE IF value.message.st # "string" THEN "false"
  ELSE "true"

isError(value) ==
  IF ~Truthy(value) THEN "false"
  ELSE IF TypeOf(value) # "object" THEN "false"
  ELSE IF value.message.st = "absent" THEN "false"
  ELSE IF value.message.st = "throws" THEN "raise"
  ELSE IF value.message.st # "string" THEN "false"
  ELSE IF value.stack.st = "absent" THEN "false"
  ELSE IF value.stack.st = "throws" THEN "raise"
  ELSE IF value.stack.st # "string" THEN "false"
  ELSE "true"

isNormalizedError(value) ==
  IF isError(value) # "true" THEN isError(value)
  ELSE IF value.originalValue = "absent" THEN "false"
  ELSE IF value.stack.st = "throws" THEN "raise"
  ELSE IF value.stack.st = "undefined" THEN "false"
  ELSE "true"

isPromise(result) ==
  IF ~Truthy(result) THEN "false"
  ELSE IF TypeOf(result) # "object" THEN "false"
  ELSE IF result.then = "absent" THEN "false"
  ELSE IF result.then = "throws" THEN "raise"
  ELSE IF result.then # "function" THEN "false"
  ELSE IF result.catch = "absent" THEN "false"
  ELSE IF result.catch = "throws" THEN "raise"
  ELSE IF result.catch # "function" THEN "false"
  ELSE "true"

----------------------------------------------------------------------------
\* new NormalizedError(error, originalValue); an omitted originalValue is
\* undefined.

\* The constructor with stack always taken from message.
NormalizedError_IgnoreStack(error, originalValue) ==
  IF error.message.st = "throws" \/ error.stack.st = "throws"
  THEN Raise(AccessorThrown)
  ELSE
    LET message == MessageOf(error)
    IN ReturnNE([message |-> message,
                 stack |-> message,
                 originalValue |-> IF Nullish(originalValue) THEN error
                                   ELSE originalValue])

\* The constructor with stack copied from error.stack, without the fallback.
NormalizedError_NoFallback(error, originalValue) ==
  IF error.message.st = "throws" \/ error.stack.st = "throws"
  THEN Raise(AccessorThrown)
  ELSE
    LET message == MessageOf(error)
    IN ReturnNE([message |-> message,
                 stack |-> error.stack,
                 originalValue |-> IF Nullish(originalValue) THEN error
                                   ELSE originalValue])

NormalizedError(error, originalValue) ==
  IF error.message.st = "throws" \/ error.stack.st = "throws"
  THEN Raise(AccessorThrown)
  ELSE
    LET message == MessageOf(error)
    IN ReturnNE([message |-> message,
                 stack |-> Coalesce(ReadStack(error), message),
                 originalValue |-> IF Nullish(originalValue) THEN error
                                   ELSE originalValue])

Prefix == "Unexpected value thrown: "

\* typeof value === "object" ? JSON.stringify(value) : String(value)
Conversion(value) ==
  IF TypeOf(value) = "object" THEN JsonStringify(value) ELSE String(value)

toNormalizedError(value) ==
  IF isError(value) = "raise" THEN Raise(AccessorThrown)
  ELSE IF isError(value) = "true" THEN NormalizedError(value, Undefined)
  ELSE
    LET text == Conversion(value)
    IN IF text.ok
       THEN NormalizedError(NewError(Prefix \o text.text), value)
       ELSE NormalizedError(NewError(Prefix \o "non-stringifiable object"), value)

----------------------------------------------------------------------------
\* noThrow(action), for an action that returns v (mode "returns") or raises v
\* (mode "raises").  A deferred result is the promise held in `derived`.

\* noThrow letting the raised value through.
noThrow_Rethrow(mode, v) ==
  IF mode = "raises" THEN Raise(v)
  ELSE IF isPromise(v) = "raise" THEN toNormalizedError(AccessorThrown)
  ELSE IF isPromise(v) = "true"
       THEN IF v.catchB = "native" THEN ReturnDeferred
            ELSE toNormalizedError(CatchThrown)
  ELSE Return(v)

\* noThrow returning the raised value without normalizing it.
noThrow_ReturnRaw(mode, v) ==
  IF mode = "raises" THEN Return(v)
  ELSE IF isPromise(v) = "raise" THEN toNormalizedError(AccessorThrown)
  ELSE IF isPromise(v) = "true"
       THEN IF v.catchB = "native" THEN ReturnDeferred
            ELSE toNormalizedError(CatchThrown)
  ELSE Return(v)

noThrow(mode, v) ==
  IF mode = "raises" THEN toNormalizedError(v)
  ELSE IF isPromise(v) = "raise" THEN toNormalizedError(AccessorThrown)
  ELSE IF isPromise(v) = "true"
       THEN IF v.catchB = "native" THEN ReturnDeferred
            ELSE toNormalizedError(CatchThrown)
  ELSE Return(v)

\* The reaction of result.catch(toNormalizedError) to the settled promise.
Pending == [state |-> "pending", isNE |-> FALSE, ne |-> NoNE, val |-> Undefined]
NoPromise == [Pending EXCEPT !.state = "none"]

catchReaction(u) ==
  IF u.state = "fulfilled" THEN [Pending EXCEPT !.state = "fulfilled", !.val = u.val]
  ELSE LET r == toNormalizedError(u.val)
       IN IF r.kind = "raise"
          THEN [Pending EXCEPT !.state = "rejected", !.val = r.val]
          ELSE [Pending EXCEPT !.state = "fulfilled", !.isNE = TRUE, !.ne = r.ne]

----------------------------------------------------------------------------
\* logError(error, context, extraInfo): the record written, or a raise.

NoRecord ==
  [timestamp |-> "", context |-> "", name |-> Absent, message |-> Absent,
   stack |-> Absent, extraInfo |-> ""]

logError(error, context, extraInfo, now) ==
  LET text == String(error)
      failed == IF error.inst
                THEN error.message.st = "throws" \/ error.stack.st = "throws"
                ELSE ~text.ok
      errorObject == IF error.inst THEN error
                     ELSE NewError(IF text.ok THEN text.text ELSE "")
  IN IF failed
     THEN [raised |-> TRUE,
           thrown |-> IF error.inst THEN AccessorThrown ELSE ConversionThrown,
           record |-> NoRecord]
     ELSE [raised |-> FALSE, thrown |-> Undefined,
           record |->
             [timestamp |-> now, context |-> context,
              name |-> Coalesce(Str("Error"), Str("No name available")),
              message |-> Coalesce(ReadMessage(errorObject),
                                   Str("No message available")),
              stack |-> Coalesce(ReadStack(errorObject),
                                 Str("No stack trace available")),
              extraInfo |-> extraInfo]]

----------------------------------------------------------------------------
\* Inputs of the scenarios.

Modes == {"returns", "raises"}

\* Arguments of the constructor that conform to its parameter type Error
\* (message: string, stack?: string).
ErrorArgs ==
  {e \in Objects : /\ e.tag = "object" /\ ~e.cyclic /\ e.toStr = "ok"
                   /\ e.originalValue = "absent"
                   /\ e.message.st = "string"
                   /\ e.stack.st \in {"absent", "undefined", "string"}}
OriginalValues == Primitives \cup {NewError("cause")}

\* Values a promise can be fulfilled with (a thenable is adopted, not held).
FulfilValues == {v \in Universe : v.then = "absent"}

LogInputs ==
  {Undefined, Null, Prim("number", "42"), Prim("string", "plain string")}
  \cup {e \in Objects : /\ e.tag = "object" /\ ~e.cyclic
                        /\ e.originalValue = "absent"
                        /\ e.message = Str("x")
                        /\ e.stack \in {Absent, Str("Error: x at f")}
                        /\ (e.inst => e.toStr = "ok")}
Contexts == {"General context", "ctx"}
ExtraInfos == {"{}", "{a:1}"}
Clock == {"2024-01-01T00:00:00.000Z", "2024-01-01T00:00:01.000Z"}

NoArg == [v |-> Undefined, mode |-> "", ov |-> Undefined, context |-> "",
          extraInfo |-> "", before |-> 0]
NoGuards == [isError |-> "none", isNormalizedError |-> "none",
             isPromise |-> "none"]

Init ==
  /\ op = "idle"
  /\ arg = NoArg
  /\ out = None
  /\ guards = NoGuards
  /\ calls = 0
  /\ under = NoPromise
  /\ derived = NoPromise
  /\ console = <<>>

----------------------------------------------------------------------------
\* The calls.

CallNormalizedError ==
  /\ op = "idle"
  /\ \E e \in ErrorArgs, ov \in OriginalValues :
       /\ arg' = [NoArg EXCEPT !.v = e, !.ov = ov]
       /\ out' = NormalizedError(e, ov)
  /\ op' = "NormalizedError"
  /\ UNCHANGED <<guards, calls, under, derived, console>>

CallToNormalizedError ==
  /\ op = "idle"
  /\ \E v \in Universe :
       /\ arg' = [NoArg EXCEPT !.v = v]
       /\ out' = toNormalizedError(v)
  /\ op' = "toNormalizedError"
  /\ UNCHANGED <<guards, calls, under, derived, console>>

CallGuards ==
  /\ op = "idle"
  /\ \E v \in Universe :
       /\ arg' = [NoArg EXCEPT !.v = v]
       /\ guards' = [isError |-> isError(v),
                     isNormalizedError |-> isNormalizedError(v),
                     isPromise |-> isPromise(v)]
  /\ op' = "guards"
  /\ UNCHANGED <<out, calls, under, derived, console>>

CallNoThrow ==
  /\ op = "idle"
  /\ \E mode \in Modes, v \in Universe :
       /\ arg' = [NoArg EXCEPT !.v = v, !.mode = mode]
       /\ out' = noThrow(mode, v)
       /\ derived' = IF noThrow(mode, v).deferred THEN Pending ELSE NoPromise
       /\ under' = IF noThrow(mode, v).deferred THEN Pending ELSE NoPromise
  /\ calls' = calls + 1
  /\ op' = "noThrow"
  /\ UNCHANGED <<guards, console>>

\* The platform settles the promise the action returned.
Fulfil ==
  /\ under.state = "pending"
  /\ \E v \in FulfilValues : under' = [under EXCEPT !.state = "fulfilled", !.val = v]
  /\ op' = "settle"
  /\ UNCHANGED <<arg, out, guards, calls, derived, console>>

Reject ==
  /\ under.state = "pending"
  /\ \E r \in Universe : under' = [under EXCEPT !.state = "rejected", !.val = r]
  /\ op' = "settle"
  /\ UNCHANGED <<arg, out, guards, calls, derived, console>>

\* The platform runs the reaction job registered by catch.
Reaction ==
  /\ under.state \in {"fulfilled", "rejected"}
  /\ derived.state = "pending"
  /\ derived' = catchReaction(under)
  /\ op' = "reaction"
  /\ UNCHANGED <<arg, out, guards, calls, under, console>>

CallLogError ==
  /\ op \in {"idle", "logError"}
  /\ Len(console) < MaxRecords
  /\ \E e \in LogInputs, c \in Contexts, x \in ExtraInfos, now \in Clock :
       LET r == logError(e, c, x, now)
       IN /\ arg' = [NoArg EXCEPT !.v = e, !.context = c, !.extraInfo = x,
                                  !.before = Len(console)]
          /\ out' = IF r.raised THEN Raise(r.thrown) ELSE Return(Undefined)
          /\ console' = IF r.raised THEN console ELSE Append(console, r.record)
  /\ op' = "logError"
  /\ UNCHANGED <<guards, calls, under, derived>>

Next ==
  \/ CallNormalizedError
  \/ CallToNormalizedError
  \/ CallGuards
  \/ CallNoThrow
  \/ Fulfil
  \/ Reject
  \/ Reaction
  \/ CallLogError

Spec == Init /\ [][Next]_vars

----------------------------------------------------------------------------
\* Shapes the claims speak of, stated on the members themselves.

ErrorLike(v) ==
  v.tag = "object" /\ v.message.st = "string" /\ v.stack.st = "string"
PromiseLike(v) ==
  v.tag = "object" /\ v.then = "function" /\ v.catch = "function"
StartsWith(s, p) == Len(s) >= Len(p) /\ SubSeq(s, 1, Len(p)) = p
Fallback == "Unexpected value thrown: non-stringifiable object"

\* C1: noThrow never raises, a deferred value it returns never ends rejected,
\* and every failure path ends in a returned or resolved NormalizedError.
C1_NoThrowNeverRaises ==
  arg.mode # "" =>
    /\ out.kind = "return"
    /\ derived.state # "rejected"
    /\ arg.mode = "raises" => out.isNE
    /\ (under.state = "rejected" /\ derived.state # "pending") =>
         (derived.state = "fulfilled" /\ derived.isNE)

\* C2: for every input that is not error-like and whose textual conversion
\* does not fail, toNormalizedError returns a NormalizedError whose message
\* starts with "Unexpected value thrown: " and whose originalValue is the
\* input itself.
C2_SyntheticKeepsOriginalValue ==
  (op = "toNormalizedError" /\ isError(arg.v) = "false" /\ Conversion(arg.v).ok) =>
    /\ out.kind = "return" /\ out.isNE
    /\ out.ne.message.st = "string"
    /\ StartsWith(out.ne.message.val, Prefix)
    /\ out.ne.originalValue = arg.v

\* C3: for every error-like input e, toNormalizedError returns a
\* NormalizedError whose originalValue is e itself, whose message is
\* e.message and whose stack is e.stack; no synthetic message is built.
C3_ErrorLikePreserved ==
  (op = "toNormalizedError" /\ ErrorLike(arg.v)) =>
    /\ out.kind = "return" /\ out.isNE
    /\ out.ne.originalValue = arg.v
    /\ out.ne.message = arg.v.message
    /\ out.ne.stack = arg.v.stack
C3_Witness ==
  /\ op = "toNormalizedError" /\ ErrorLike(arg.v) /\ ~arg.v.inst
  /\ out.isNE /\ out.ne.message = Str("x") /\ out.ne.stack = Str("Error: x at f")

\* C4 as stated: every NormalizedError produced has a stack that is a
\* non-empty string.
C4_StackNonEmpty ==
  /\ out.isNE => (out.ne.stack.st = "string" /\ out.ne.stack.val # "")
  /\ derived.isNE => (derived.ne.stack.st = "string" /\ derived.ne.stack.val # "")

\* The source a NormalizedError was built from has an empty stack, or no
\* stack and an empty message.
EmptySource(e) ==
  \/ e.stack = Str("")
  \/ e.stack.st \in {"absent", "undefined"} /\ e.message = Str("")

\* C4 as amended: every NormalizedError produced has a stack that is a string
\* (never absent): the source's stack when it has one, its message otherwise;
\* the stack is empty exactly when the source is an error-like value with an
\* empty stack, or has no stack and an empty message.
C4_StackIsString ==
  /\ out.isNE => (out.ne.stack.st = "string" /\ out.ne.message.st = "string")
  /\ derived.isNE => (derived.ne.stack.st = "string" /\ derived.ne.message.st = "string")
  /\ (op = "NormalizedError" /\ out.isNE) =>
       /\ out.ne.stack = IF arg.v.stack.st = "string" THEN arg.v.stack
                         ELSE out.ne.message
       /\ out.ne.stack.val = "" <=> EmptySource(arg.v)
  /\ (op = "toNormalizedError" /\ out.isNE) =>
       (out.ne.stack.val = "" <=> (ErrorLike(arg.v) /\ arg.v.stack.val = ""))
  /\ (arg.mode = "raises" /\ out.isNE) =>
       (out.ne.stack.val = "" <=> (ErrorLike(arg.v) /\ arg.v.stack.val = ""))
  /\ (arg.mode = "returns" /\ out.isNE) => out.ne.stack.val # ""
  /\ derived.isNE =>
       (derived.ne.stack.val = "" <=> (ErrorLike(under.val) /\ under.val.stack.val = ""))
C4_Witness ==
  /\ op = "NormalizedError" /\ out.isNE
  /\ arg.v.stack.st = "absent" /\ arg.v.message = Str("")
  /\ out.ne.stack = Str("")

\* C5: the deferred value noThrow returns stays pending while the underlying
\* one is pending; once that settles it is fulfilled with the same value, or,
\* on rejection with reason r, fulfilled with toNormalizedError(r), whose
\* originalValue is r itself when r is not error-like.
C5_DeferredFollowsUnderlying ==
  /\ under.state = "pending" => derived.state = "pending"
  /\ (op = "reaction" /\ under.state = "fulfilled") =>
       (derived.state = "fulfilled" /\ ~derived.isNE /\ derived.val = under.val)
  /\ (op = "reaction" /\ under.state = "rejected") =>
       /\ derived.state = "fulfilled" /\ derived.isNE
       /\ toNormalizedError(under.val) = ReturnNE(derived.ne)
       /\ ~ErrorLike(under.val) => derived.ne.originalValue = under.val

\* Reading the members the guards inspect raises.
ErrorReadRaises(v) ==
  /\ v.tag = "object"
  /\ \/ v.message.st = "throws"
     \/ v.message.st = "string" /\ v.stack.st = "throws"
PromiseReadRaises(v) ==
  /\ v.tag = "object"
  /\ \/ v.then = "throws"
     \/ v.then = "function" /\ v.catch = "throws"

SyncAction == arg.mode = "raises" \/ (arg.mode = "returns" /\ ~PromiseLike(arg.v))

C8_NeverRaises ==
  op = "toNormalizedError" =>
    /\ out.kind = "return" /\ out.isNE
    /\ (~ErrorLike(arg.v) /\ ~Conversion(arg.v).ok) =>
         (out.ne.message = Str(Fallback) /\ out.ne.originalValue = arg.v)

\* C9: logError never raises and writes exactly one record, with the given
\* context, the given extraInfo, and the message of an Error instance or the
\* plain-text conversion of any other value.
C9_LogErrorNeverRaises ==
  op = "logError" =>
    /\ out.kind = "return"
    /\ Len(console) = arg.before + 1
    /\ console[Len(console)].context = arg.context
    /\ console[Len(console)].extraInfo = arg.extraInfo
    /\ console[Len(console)].message =
         IF arg.v.inst THEN arg.v.message ELSE Str(String(arg.v).text)

\* C10: the guards return false for null, undefined, numbers and text (and do
\* not raise on them); isError is true exactly for a non-null object with a
\* string message and a string stack, isNormalizedError exactly when, in
\* addition, there is an originalValue member and stack is not undefined,
\* isPromise exactly for a non-null object with callable then and catch.
C10_Guards ==
  op = "guards" =>
    /\ arg.v.tag \in {"null", "undefined", "number", "string"} =>
         guards = [isError |-> "false", isNormalizedError |-> "false",
                   isPromise |-> "false"]
    /\ guards.isError = "true" <=> ErrorLike(arg.v)
    /\ guards.isNormalizedError = "true" <=>
         (ErrorLike(arg.v) /\ arg.v.originalValue = "present"
            /\ arg.v.stack.st # "undefined")
    /\ guards.isPromise = "true" <=> PromiseLike(arg.v)
C10_Witness ==
  /\ op = "guards" /\ ErrorLike(arg.v) /\ arg.v.originalValue = "absent"
  /\ guards.isError = "true" /\ guards.isNormalizedError = "false"

====
